---------------------------- MODULE Spec2Model ----------------------------
(***************************************************************************)
(* A model of the linalg Matrix type (src/src/lib.rs): a row-major buffer  *)
(* of f64 with its dimensions, and the operations on it.                   *)
(*                                                                         *)
(* An f64 is modelled as an exact rational <<n, d>> in lowest terms, d > 0,*)
(* extended with the IEEE special values: <<0, 1>> is +0.0, <<0, -1>> is   *)
(* -0.0, <<1, 0>> is +inf, <<-1, 0>> is -inf and <<0, 0>> is NaN.  The     *)
(* rounding of f64 arithmetic is not modelled: sums, products and          *)
(* quotients are exact.                                                    *)
(*                                                                         *)
(* A panic aborts the call: the operation's outcome is status = "panic"    *)
(* with the panic's message in err, and no value is returned.              *)
(***************************************************************************)
EXTENDS Integers, Sequences, FiniteSets, TLC

VARIABLES
    m,       \* the Matrix the calls are made on (self)
    b,       \* a second Matrix, the argument of combine and dot
    ret,     \* the Matrix the last call returned
    num,     \* the f64 the last call returned
    text,    \* the String the last call returned
    input,   \* the &str handed to from_string, a sequence of characters
    orig,    \* self before the first call
    old,     \* self before the last call
    status,  \* "ready" before any call, then "ok" or "panic"
    err,     \* the panic's message
    calls,   \* the names of the calls made so far, in order
    edits,   \* the number of element writes made through IndexMut
    budget,  \* the number of calls the caller makes
    cap      \* the caller stops once an element's numerator or denominator
             \* exceeds cap (0: it never stops)

vars == <<m, b, ret, num, text, input, orig, old, status, err, calls, edits, budget, cap>>

----------------------------------------------------------------------------
(* f64 arithmetic *)

Abs(x) == IF x < 0 THEN -x ELSE x

RECURSIVE GCD(_, _)
GCD(x, y) == IF y = 0 THEN x ELSE GCD(y, x % y)

NaN == <<0, 0>>
PInf == <<1, 0>>
NInf == <<-1, 0>>
PZero == <<0, 1>>
NZero == <<0, -1>>

\* the f64 of an integer literal
Num(i) == <<i, 1>>

IsNaN(x) == x[1] = 0 /\ x[2] = 0
IsInf(x) == x[1] # 0 /\ x[2] = 0
IsZero(x) == x[1] = 0 /\ x[2] # 0
IsFinite(x) == x[2] # 0
SignNeg(x) == x[1] < 0 \/ (x[1] = 0 /\ x[2] < 0)

\* the value n/d, d # 0, n # 0, in lowest terms
Norm(n, d) ==
    LET g == GCD(Abs(n), Abs(d))
        s == IF (n < 0) = (d < 0) THEN 1 ELSE -1
    IN  <<s * (Abs(n) \div g), Abs(d) \div g>>

SignedZero(neg) == IF neg THEN NZero ELSE PZero
SignedInf(neg) == IF neg THEN NInf ELSE PInf

FNeg(x) ==
    IF IsNaN(x) THEN NaN
    ELSE IF IsZero(x) THEN <<0, -x[2]>>
    ELSE <<-x[1], x[2]>>

FAdd(x, y) ==
    IF IsNaN(x) \/ IsNaN(y) THEN NaN
    ELSE IF IsInf(x) /\ IsInf(y) THEN (IF x = y THEN x ELSE NaN)
    ELSE IF IsInf(x) THEN x
    ELSE IF IsInf(y) THEN y
    ELSE IF IsZero(x) /\ IsZero(y) THEN SignedZero(SignNeg(x) /\ SignNeg(y))
    ELSE IF IsZero(x) THEN y
    ELSE IF IsZero(y) THEN x
    ELSE LET n == x[1] * y[2] + y[1] * x[2]
         IN  IF n = 0 THEN PZero ELSE Norm(n, x[2] * y[2])

FSub(x, y) == FAdd(x, FNeg(y))

FMul(x, y) ==
    LET neg == SignNeg(x) # SignNeg(y)
    IN  IF IsNaN(x) \/ IsNaN(y) THEN NaN
        ELSE IF (IsInf(x) /\ IsZero(y)) \/ (IsZero(x) /\ IsInf(y)) THEN NaN
        ELSE IF IsInf(x) \/ IsInf(y) THEN SignedInf(neg)
        ELSE IF IsZero(x) \/ IsZero(y) THEN SignedZero(neg)
        ELSE Norm(x[1] * y[1], x[2] * y[2])

FDiv(x, y) ==
    LET neg == SignNeg(x) # SignNeg(y)
    IN  IF IsNaN(x) \/ IsNaN(y) THEN NaN
        ELSE IF (IsInf(x) /\ IsInf(y)) \/ (IsZero(x) /\ IsZero(y)) THEN NaN
        ELSE IF IsInf(x) \/ IsZero(y) THEN SignedInf(neg)
        ELSE IF IsZero(x) \/ IsInf(y) THEN SignedZero(neg)
        ELSE Norm(x[1] * y[2], x[2] * y[1])

\* x == y on f64: NaN equals nothing, the two zeros are equal
FEq(x, y) ==
    /\ ~IsNaN(x)
    /\ ~IsNaN(y)
    /\ \/ x = y
       \/ IsZero(x) /\ IsZero(y)

\* x > 0.0
FPos(x) == x[1] > 0

----------------------------------------------------------------------------
(* Matrix: rows, cols and the flat buffer (data[i + 1] is the Vec's data[i]) *)

Matrix(r, c, d) == [rows |-> r, cols |-> c, data |-> d]

\* vec![0.0; rows * cols]
new(rows, cols) == Matrix(rows, cols, [i \in 1..(rows * cols) |-> PZero])

\* Index::index: the slice data[index*cols .. (index+1)*cols] exists
RowInBounds(M, r) == (r + 1) * M.cols <= Len(M.data)

\* self[r][c] is readable and writable
InBounds(M, r, c) == RowInBounds(M, r) /\ c < M.cols

At(M, r, c) == M.data[r * M.cols + c + 1]

\* self[r], the slice
Row(M, r) == [c \in 1..M.cols |-> M.data[r * M.cols + c]]

SetAt(M, r, c, v) == [M EXCEPT !.data[r * M.cols + c + 1] = v]

----------------------------------------------------------------------------
(* outcomes of a call that may panic *)

Ok(v) == [ok |-> TRUE, v |-> v, err |-> ""]
Panic(v, e) == [ok |-> FALSE, v |-> v, err |-> e]

OutOfBounds == "index out of bounds"
NotSquareDet == "Determinant requires matrix to be a square."

----------------------------------------------------------------------------
(* det and cofactor *)

\* the index of the k-th of 0, 1, ... that the loop does not skip
Skip(k, skipped) == IF k < skipped THEN k ELSE k + 1

\* how many of 0..n-1 the loop does not skip
Kept(n, skipped) == IF skipped < n THEN n - 1 ELSE n

\* the rows r # expanded_row, each without column j, flattened
CutData(M, expanded_row, j) ==
    LET nr == Kept(M.rows, expanded_row)
        nc == Kept(M.cols, j)
    IN  [rows |-> nr,
         width |-> nc,
         data |-> [i \in 1..(nr * nc) |->
                     At(M, Skip((i - 1) \div nc, expanded_row), Skip((i - 1) % nc, j))]]

\* a cofactor that drops the sign
UnsignedPow(e) == Num(1)

\* (-1)^(e) as f64::from(base.pow(e))
SignPow(e) == IF e % 2 = 0 THEN Num(1) ELSE Num(-1)

RECURSIVE det(_)
RECURSIVE cofactor(_, _, _)

cofactor(M, expanded_row, j) ==
    LET cut == CutData(M, expanded_row, j)
    IN  IF cut.rows = 0
        THEN Panic(NaN, OutOfBounds)                     \* cut[0] of an empty Vec
        ELSE LET minor == det(Matrix(cut.rows, cut.width, cut.data))
             IN  IF ~minor.ok THEN minor
                 ELSE Ok(FMul(minor.v, SignPow(expanded_row + j)))

RECURSIVE DetLoop(_, _, _)
\* the for loop of det's else branch, from column j with the running sum acc
DetLoop(M, j, acc) ==
    IF j >= M.cols THEN Ok(acc)
    ELSE LET cf == cofactor(M, 1, j)
         IN  IF ~cf.ok THEN cf
             ELSE DetLoop(M, j + 1, FAdd(acc, FMul(cf.v, At(M, 1, j))))

det(M) ==
    IF M.rows # M.cols THEN Panic(NaN, NotSquareDet)
    ELSE IF M.rows = 2 /\ M.cols = 2
    THEN Ok(FSub(FMul(At(M, 0, 0), At(M, 1, 1)), FMul(At(M, 0, 1), At(M, 1, 0))))
    ELSE IF ~RowInBounds(M, 1) THEN Panic(NaN, OutOfBounds)   \* self[row].len()
    ELSE DetLoop(M, 0, PZero)

----------------------------------------------------------------------------
(* the elementwise and structural operations *)

NotSquareIdentity == "Not a square matrix."
SameSize == "Matrices must be of the same size."
DimsNotMatched == "Dimensions not matched."
NoInverse == "Determinant is 0. No inverse."

\* copy: pushes every element into a fresh Vec
copy(M) == Matrix(M.rows, M.cols, [i \in 1..Len(M.data) |-> M.data[i]])

RECURSIVE IdentityLoop(_, _)
\* the for loop of identity, from row r
IdentityLoop(M, r) ==
    IF r >= M.rows THEN Ok(M)
    ELSE IF ~InBounds(M, r, r) THEN Panic(M, OutOfBounds)
    ELSE IdentityLoop(SetAt(M, r, r, Num(1)), r + 1)

identity(M) ==
    IF M.rows # M.cols THEN Panic(M, NotSquareIdentity)
    ELSE IdentityLoop(M, 0)

\* the closures handed to apply
UnaryFns == {"add3", "mul2", "div2"}

CallUnary(f, x) ==
    CASE f = "add3" -> FAdd(x, Num(3))
      [] f = "mul2" -> FMul(x, Num(2))
      [] f = "div2" -> FDiv(x, Num(2))

apply(M, f) == [M EXCEPT !.data = [i \in 1..Len(M.data) |-> CallUnary(f, M.data[i])]]

\* the closures handed to combine
BinaryFns == {"add", "sub", "mul"}

CallBinary(f, x, y) ==
    CASE f = "add" -> FAdd(x, y)
      [] f = "sub" -> FSub(x, y)
      [] f = "mul" -> FMul(x, y)

Min(x, y) == IF x <= y THEN x ELSE y

\* iter().zip(): as long as the shorter of the two buffers
ZipWith(f, A, B) == [i \in 1..Min(Len(A.data), Len(B.data)) |-> CallBinary(f, A.data[i], B.data[i])]

\* a combine that does not compare the shapes
UncheckedCombine(A, B, f) == Ok([new(A.rows, A.cols) EXCEPT !.data = ZipWith(f, A, B)])

combine(A, B, f) ==
    IF A.rows # B.rows \/ A.cols # B.cols THEN Panic(A, SameSize)
    ELSE Ok([new(A.rows, A.cols) EXCEPT !.data = ZipWith(f, A, B)])

RECURSIVE DotSum(_, _, _, _, _, _)
\* the k loop of dot: sum += self[i][k] * b[k][j]
DotSum(A, B, i, j, k, sum) ==
    IF k >= B.rows THEN Ok(sum)
    ELSE IF ~InBounds(A, i, k) \/ ~InBounds(B, k, j) THEN Panic(sum, OutOfBounds)
    ELSE DotSum(A, B, i, j, k + 1, FAdd(sum, FMul(At(A, i, k), At(B, k, j))))

RECURSIVE DotLoop(_, _, _, _, _)
\* the i and j loops of dot, from (i, j) with the result so far in dp
DotLoop(A, B, i, j, dp) ==
    IF i >= A.rows THEN Ok(dp)
    ELSE IF j >= B.cols THEN DotLoop(A, B, i + 1, 0, dp)
    ELSE LET s == DotSum(A, B, i, j, 0, PZero)
         IN  IF ~s.ok THEN Panic(dp, s.err)
             ELSE DotLoop(A, B, i, j + 1, SetAt(dp, i, j, s.v))

\* the guard of dot
DotMismatch(A, B) == A.rows # B.cols \/ A.cols # B.rows

dot(A, B) ==
    IF DotMismatch(A, B) THEN Panic(A, DimsNotMatched)
    ELSE DotLoop(A, B, 0, 0, new(A.rows, B.cols))

\* t[j][i] = self[i][j] over a zero-filled cols x rows Matrix
transpose(M) ==
    Matrix(M.cols, M.rows,
           [k \in 1..(M.cols * M.rows) |->
               At(M, (k - 1) % M.rows, (k - 1) \div M.rows)])

----------------------------------------------------------------------------
(* the tolerance correction *)

CorrectRoundDen == 10000000     \* elem - floored > 0.9999999
CorrectPosDen == 1000000        \* elem < 0.000001
CorrectNegDen == 100000         \* elem > -0.00001

\* elem.floor() of a finite value
Floor(x) == x[1] \div x[2]

\* elem - elem.floor() > 0.9999999 (false for NaN and the infinities)
NearNextInteger(x) ==
    /\ IsFinite(x)
    /\ ~IsZero(x)
    /\ x[2] > CorrectRoundDen
    /\ (x[2] - (x[1] % x[2])) <= (x[2] - 1) \div CorrectRoundDen

\* elem.round() of a value whose fraction is above 0.9999999
RoundUp(x) ==
    LET r == Floor(x) + 1
    IN  IF r = 0 THEN SignedZero(SignNeg(x)) ELSE Num(r)

\* elem > 0.0 && elem < 0.000001
TinyPositive(x) ==
    /\ IsFinite(x)
    /\ x[1] > 0
    /\ x[1] <= (x[2] - 1) \div CorrectPosDen

\* elem < 0.0 && elem > -0.00001
TinyNegative(x) ==
    /\ IsFinite(x)
    /\ x[1] < 0
    /\ (0 - x[1]) <= (x[2] - 1) \div CorrectNegDen

\* what correct leaves in one cell: the four ifs in order, each testing
\* the value read at the top
CorrectElem(elem) ==
    LET v1 == IF FEq(elem, NZero) THEN PZero ELSE elem
        v2 == IF NearNextInteger(elem) THEN RoundUp(elem) ELSE v1
        v3 == IF TinyPositive(elem) THEN PZero ELSE v2
    IN  IF TinyNegative(elem) THEN PZero ELSE v3

correct(M) == [M EXCEPT !.data = [i \in 1..Len(M.data) |-> CorrectElem(M.data[i])]]

----------------------------------------------------------------------------
(* rref *)

RECURSIVE FirstPositive(_, _)
\* the scan of swap_rows: the first row r with self[r][0] > 0.0, else 0
FirstPositive(M, r) ==
    IF r >= M.rows THEN 0
    ELSE IF FPos(At(M, r, 0)) THEN r
    ELSE FirstPositive(M, r + 1)

RECURSIVE SwapLoop(_, _, _, _, _)
\* the copy loop of swap_rows, from column c; temp is the saved row `row`
SwapLoop(M, row, n_r, temp, c) ==
    IF c >= M.cols THEN Ok(M)
    ELSE LET M1 == SetAt(M, row, c, At(M, n_r, c))
         IN  IF n_r * M.cols + c >= Len(temp)
             THEN Panic(M1, OutOfBounds)                  \* temp[n_r * cols + c]
             ELSE SwapLoop(SetAt(M1, n_r, c, temp[n_r * M.cols + c + 1]),
                           row, n_r, temp, c + 1)

swap_rows(M, row) == SwapLoop(M, row, FirstPositive(M, 0), Row(M, row), 0)

\* the pivot row divided by div
DivideRow(M, lead, div) ==
    [M EXCEPT !.data = [i \in 1..Len(M.data) |->
        IF (i - 1) \div M.cols = lead THEN FDiv(M.data[i], div) ELSE M.data[i]]]

\* an elimination that clears only the rows below the pivot
EliminateBelow(M, r, lead, mult) ==
    [M EXCEPT !.data = [i \in 1..Len(M.data) |->
        IF (i - 1) \div M.cols = r /\ r > lead
        THEN FSub(M.data[i], FMul(At(M, lead, (i - 1) % M.cols), mult))
        ELSE M.data[i]]]

\* self[r][c] -= self[lead][c] * mult for every column c, r # lead
EliminateRow(M, r, lead, mult) ==
    [M EXCEPT !.data = [i \in 1..Len(M.data) |->
        IF (i - 1) \div M.cols = r
        THEN FSub(M.data[i], FMul(At(M, lead, (i - 1) % M.cols), mult))
        ELSE M.data[i]]]

RECURSIVE RrefLoop(_, _, _)
\* the while loop of rref at pivot `lead`, its for loop at row r
RrefLoop(M, lead, r) ==
    IF lead >= M.rows THEN Ok(M)
    ELSE IF r >= M.rows THEN RrefLoop(M, lead + 1, 0)
    ELSE IF ~InBounds(M, lead, lead) \/ ~InBounds(M, r, lead)
    THEN Panic(M, OutOfBounds)
    ELSE LET div == At(M, lead, lead)
             mult == FDiv(At(M, r, lead), div)
         IN  IF r = lead
             THEN RrefLoop(DivideRow(M, lead, div), lead, r + 1)
             ELSE RrefLoop(EliminateRow(M, r, lead, mult), lead, r + 1)

rref(M) ==
    IF ~InBounds(M, 0, 0) THEN Panic(M, OutOfBounds)
    ELSE LET sw == IF FEq(At(M, 0, 0), PZero) THEN swap_rows(M, 0) ELSE Ok(M)
         IN  IF ~sw.ok THEN sw
             ELSE LET red == RrefLoop(sw.v, 0, 0)
                  IN  IF ~red.ok THEN red ELSE Ok(correct(red.v))

----------------------------------------------------------------------------
(* inverse *)

RECURSIVE CofactorLoop(_, _, _, _)
\* the loops of inverse, from (row, col) with the cofactors so far in inv
CofactorLoop(M, row, col, inv) ==
    IF row >= M.rows THEN Ok(inv)
    ELSE IF col >= M.cols THEN CofactorLoop(M, row + 1, 0, inv)
    ELSE LET cf == cofactor(M, row, col)
         IN  IF ~cf.ok THEN Panic(inv, cf.err)
             ELSE CofactorLoop(M, row, col + 1, SetAt(inv, row, col, cf.v))

\* inv.apply(|x| x / d)
DivideAll(M, d) == [M EXCEPT !.data = [i \in 1..Len(M.data) |-> FDiv(M.data[i], d)]]

inverse(M) ==
    LET d == det(M)
    IN  IF ~d.ok THEN Panic(M, d.err)
        ELSE IF FEq(d.v, PZero) THEN Panic(M, NoInverse)
        ELSE LET cofs == CofactorLoop(M, 0, 0, new(M.rows, M.cols))
             IN  IF ~cofs.ok THEN cofs
                 ELSE Ok(DivideAll(transpose(correct(cofs.v)), d.v))

----------------------------------------------------------------------------
(* from_string: the &str is a sequence of one-character strings *)

ColumnsDontMatch == "Columns don't match"
ParseFloatError == "ParseFloatError"

Digits == <<"0", "1", "2", "3", "4", "5", "6", "7", "8", "9">>
IsDigit(ch) == \E i \in 1..Len(Digits) : Digits[i] = ch
DigitVal(ch) == (CHOOSE i \in 1..Len(Digits) : Digits[i] = ch) - 1
IsSpace(ch) == ch = " "

RECURSIVE SplitOn(_, _, _, _)
\* str::split(sep): the pieces between the separators, empty ones included
SplitOn(s, sep, i, piece) ==
    IF i > Len(s) THEN <<piece>>
    ELSE IF s[i] = sep THEN <<piece>> \o SplitOn(s, sep, i + 1, <<>>)
    ELSE SplitOn(s, sep, i + 1, Append(piece, s[i]))

RECURSIVE SplitWs(_, _, _)
\* str::split_whitespace: the maximal runs of non-whitespace
SplitWs(s, i, tok) ==
    IF i > Len(s) THEN (IF tok = <<>> THEN <<>> ELSE <<tok>>)
    ELSE IF IsSpace(s[i])
    THEN (IF tok = <<>> THEN <<>> ELSE <<tok>>) \o SplitWs(s, i + 1, <<>>)
    ELSE SplitWs(s, i + 1, Append(tok, s[i]))

RECURSIVE DigitsValue(_, _, _)
DigitsValue(t, i, acc) ==
    IF i > Len(t) THEN acc ELSE DigitsValue(t, i + 1, acc * 10 + DigitVal(t[i]))

\* str::parse::<f64> on a token of digits and minus signs: an optional sign, then
\* one or more digits
ParseF64(t) ==
    LET neg == Len(t) >= 1 /\ t[1] = "-"
        ds == IF neg THEN SubSeq(t, 2, Len(t)) ELSE t
    IN  IF ds = <<>> \/ \E i \in 1..Len(ds) : ~IsDigit(ds[i])
        THEN Panic(NaN, ParseFloatError)
        ELSE LET v == DigitsValue(ds, 1, 0)
             IN  Ok(IF v = 0 THEN SignedZero(neg) ELSE Num(IF neg THEN 0 - v ELSE v))

RECURSIVE ParseRow(_, _, _)
\* the map/collect over one row's entries, from entry i
ParseRow(entries, i, acc) ==
    IF i > Len(entries) THEN Ok(acc)
    ELSE LET p == ParseF64(entries[i])
         IN  IF ~p.ok THEN Panic(acc, p.err)
             ELSE ParseRow(entries, i + 1, Append(acc, p.v))

\* the guard of from_string's loop on a row of c entries
Ragged(count, cols, c) == count > 0 /\ cols # c

RECURSIVE FromRows(_, _, _, _)
\* the for loop of from_string, from row i with the column count of the
\* row before in cols and the elements so far in data
FromRows(rows, i, cols, data) ==
    IF i > Len(rows) THEN Ok(Matrix(Len(rows), cols, data))
    ELSE LET entries == SplitWs(rows[i], 1, <<>>)
             c == Len(entries)
         IN  IF Ragged(i - 1, cols, c)
             THEN Panic(Matrix(0, 0, <<>>), ColumnsDontMatch)
             ELSE LET temp == ParseRow(entries, 1, <<>>)
                  IN  IF ~temp.ok THEN Panic(Matrix(0, 0, <<>>), temp.err)
                      ELSE FromRows(rows, i + 1, c, data \o temp.v)

from_string(s) == FromRows(SplitOn(s, ";", 1, <<>>), 1, 0, <<>>)

----------------------------------------------------------------------------
(* Display *)

RECURSIVE Pad3(_)
Pad3(s) == IF Len(s) >= 3 THEN s ELSE Pad3("0" \o s)

\* |x| in thousandths, rounded to nearest, ties to even
Thousandths(x) ==
    LET n == Abs(x[1]) * 1000
        d == Abs(x[2])
        q == n \div d
        r2 == 2 * (n % d)
    IN  IF r2 > d \/ (r2 = d /\ q % 2 = 1) THEN q + 1 ELSE q

\* format!("{:.3}", x)
Fmt3(x) ==
    IF IsNaN(x) THEN "NaN"
    ELSE IF IsInf(x) THEN (IF SignNeg(x) THEN "-inf" ELSE "inf")
    ELSE LET t == Thousandths(x)
         IN  (IF SignNeg(x) THEN "-" ELSE "")
             \o ToString(t \div 1000) \o "." \o Pad3(ToString(t % 1000))

RECURSIVE FmtRow(_, _, _)
\* the c loop of fmt on row r: a space after every value but the last
FmtRow(M, r, c) ==
    IF c >= M.cols THEN ""
    ELSE Fmt3(At(M, r, c)) \o (IF c = M.cols - 1 THEN "" ELSE " ") \o FmtRow(M, r, c + 1)

RECURSIVE FmtRows(_, _)
FmtRows(M, r) ==
    IF r >= M.rows THEN ""
    ELSE "[" \o FmtRow(M, r, 0) \o "]\n" \o FmtRows(M, r + 1)

\* Display::fmt, and so to_string
fmt(M) == FmtRows(M, 0)

----------------------------------------------------------------------------
(* bounds of the model *)

MaxVal == 1      \* element writes store values in 0..MaxVal
MaxEdits == 2    \* element writes before the first call
MaxOps == 3      \* calls in one run of the lifecycle specification
MaxDim == 2      \* new(rows, cols) is called with rows, cols in 0..MaxDim
MaxLen == 5      \* from_string is handed every &str of at most MaxLen characters
MaxDotDim == 4   \* dot is handed matrices of 1..MaxDotDim rows and columns
MaxMag == 40     \* the cap of the lifecycle specification

Vals == 0..MaxVal

\* the Matrix of the given shape holding the given integers
Mat(r, c, ints) == Matrix(r, c, [i \in 1..Len(ints) |-> Num(ints[i])])

\* r x c, filled start, start + 1, ... in row-major order
Ramp(r, c, start) == Matrix(r, c, [i \in 1..(r * c) |-> Num(start + i - 1)])

----------------------------------------------------------------------------
(* the calls *)

\* every element of M is NaN, infinite or n/d with |n| and d at most cap
InRange(M) ==
    \/ cap = 0
    \/ \A i \in 1..Len(M.data) : Abs(M.data[i][1]) <= cap /\ Abs(M.data[i][2]) <= cap

Callable ==
    /\ status # "panic"
    /\ Len(calls) < budget
    /\ InRange(m)
    /\ InRange(b)

LastCall == IF calls = <<>> THEN "none" ELSE calls[Len(calls)]

\* a call that returns a Matrix or panics
ReturnsMatrix(name, o) ==
    /\ calls' = Append(calls, name)
    /\ old' = m
    /\ status' = IF o.ok THEN "ok" ELSE "panic"
    /\ err' = o.err
    /\ ret' = IF o.ok THEN o.v ELSE ret
    /\ UNCHANGED <<m, b, num, text, orig, edits, budget, cap>>

\* a call that mutates self in place, or panics part-way
MutatesSelf(name, o) ==
    /\ calls' = Append(calls, name)
    /\ old' = m
    /\ status' = IF o.ok THEN "ok" ELSE "panic"
    /\ err' = o.err
    /\ m' = o.v
    /\ UNCHANGED <<b, ret, num, text, input, orig, edits, budget, cap>>

\* m[r][c] = v through IndexMut, before the first call
SetEntry ==
    /\ status = "ready"
    /\ edits < MaxEdits
    /\ \E r \in 0..(m.rows - 1), c \in 0..(m.cols - 1), v \in Vals :
          /\ InBounds(m, r, c)
          /\ m' = SetAt(m, r, c, Num(v))
    /\ orig' = m'
    /\ old' = m'
    /\ edits' = edits + 1
    /\ UNCHANGED <<b, ret, num, text, input, status, err, calls, budget, cap>>

New ==
    /\ Callable
    /\ \E r \in 0..MaxDim, c \in 0..MaxDim : ReturnsMatrix("new", Ok(new(r, c)))
    /\ UNCHANGED input

FromString ==
    /\ Callable
    /\ ReturnsMatrix("from_string", from_string(input))
    /\ UNCHANGED input

Copy ==
    /\ Callable
    /\ ReturnsMatrix("copy", Ok(copy(m)))
    /\ UNCHANGED input

Identity ==
    /\ Callable
    /\ MutatesSelf("identity", identity(m))

Apply ==
    /\ Callable
    /\ \E f \in UnaryFns : MutatesSelf("apply", Ok(apply(m, f)))

Combine ==
    /\ Callable
    /\ \E f \in BinaryFns : ReturnsMatrix("combine", combine(m, b, f))
    /\ UNCHANGED input

Dot ==
    /\ Callable
    /\ ReturnsMatrix("dot", dot(m, b))
    /\ UNCHANGED input

Transpose ==
    /\ Callable
    /\ ReturnsMatrix("transpose", Ok(transpose(m)))
    /\ UNCHANGED input

Rref ==
    /\ Callable
    /\ MutatesSelf("rref", rref(m))

Inverse ==
    /\ Callable
    /\ ReturnsMatrix("inverse", inverse(m))
    /\ UNCHANGED input

Det ==
    /\ Callable
    /\ LET d == det(m)
       IN  /\ status' = IF d.ok THEN "ok" ELSE "panic"
           /\ err' = d.err
           /\ num' = IF d.ok THEN d.v ELSE num
    /\ calls' = Append(calls, "det")
    /\ old' = m
    /\ UNCHANGED <<m, b, ret, text, input, orig, edits, budget, cap>>

\* m.to_string()
Display ==
    /\ Callable
    /\ text' = fmt(m)
    /\ status' = "ok"
    /\ err' = ""
    /\ calls' = Append(calls, "to_string")
    /\ old' = m
    /\ UNCHANGED <<m, b, ret, num, input, orig, edits, budget, cap>>

MatrixCalls == {"new", "from_string", "copy", "combine", "dot", "transpose", "inverse"}

\* let m = <the Matrix just returned>
BindSelf ==
    /\ status = "ok"
    /\ LastCall \in MatrixCalls
    /\ m' = ret
    /\ UNCHANGED <<b, ret, num, text, input, orig, old, status, err, calls, edits, budget, cap>>

\* let b = <the Matrix just returned>
BindOther ==
    /\ status = "ok"
    /\ LastCall \in MatrixCalls
    /\ b' = ret
    /\ UNCHANGED <<m, ret, num, text, input, orig, old, status, err, calls, edits, budget, cap>>

----------------------------------------------------------------------------
(* the specifications *)

Start(M, B, s, n, k) ==
    /\ m = M
    /\ b = B
    /\ ret = new(0, 0)
    /\ num = PZero
    /\ text = ""
    /\ input = s
    /\ orig = M
    /\ old = M
    /\ status = "ready"
    /\ err = ""
    /\ calls = <<>>
    /\ edits = 0
    /\ budget = n
    /\ cap = k

\* the &strs of main.rs and of the crate's tests
Sample1 == <<"1", " ", "2", " ", "3", " ", ";", " ", "4", " ", "5", " ", "6">>
SampleRagged == <<"1", " ", "2", ";", "3">>

\* the matrices of main.rs
M1 == Ramp(2, 3, 1)
M2 == Ramp(2, 3, 7)
M3 == Ramp(3, 3, 1)
M4 == Mat(3, 3, <<9, 8, 4, 2, 3, 7, 4, 1, 1>>)
M5 == Mat(3, 3, <<3, 0, 2, 2, 0, -2, 0, 1, 1>>)
M6 == Mat(3, 4, <<5, -6, -7, 7, 3, -2, 5, -17, 2, 4, -3, 29>>)
M6Zero == Mat(3, 3, <<0, 1, 2, 0, 3, 1, 5, 2, 2>>)

\* further inputs
S22 == Ramp(2, 2, 1)
Inv22 == Mat(2, 2, <<4, 7, 2, 6>>)
Neg22 == Mat(2, 2, <<-3, 2, 5, -1>>)
One11 == Mat(1, 1, <<5>>)
Tall32 == Ramp(3, 2, 1)
Dense44 == Mat(4, 4, <<2, 1, 0, 3, 1, 0, 2, -1, 0, 3, 1, 2, -1, 2, 1, 0>>)

(* the lifecycle: any MaxOps calls, starting as main.rs does *)
Init == \E s \in {Sample1, SampleRagged} : Start(M1, M2, s, MaxOps, MaxMag)

Next ==
    \/ New
    \/ FromString
    \/ Copy
    \/ Identity
    \/ Apply
    \/ Combine
    \/ Dot
    \/ Transpose
    \/ Rref
    \/ Inverse
    \/ BindSelf
    \/ BindOther

Spec == Init /\ [][Next]_vars

(* one call on a square matrix *)
SquareSeeds == {One11, S22, Inv22, Neg22, M3, M4, M5, Dense44, Ramp(4, 4, 1)}

InitSquare == \E M \in SquareSeeds : Start(M, new(0, 0), <<>>, 1, 0)

NextSquare ==
    \/ SetEntry
    \/ Identity
    \/ Det

SpecSquare == InitSquare /\ [][NextSquare]_vars

(* inverse on a square matrix *)
NextInverse ==
    \/ SetEntry
    \/ Inverse

SpecInverse == InitSquare /\ [][NextInverse]_vars

(* rref, once and again, and det, on a matrix of any shape *)
ShapeSeeds == {One11, Inv22, M1, Tall32, M6Zero, M5, M6}

InitShapes == \E M \in ShapeSeeds : Start(M, new(0, 0), <<>>, 2, 0)

NextShapes ==
    \/ SetEntry
    \/ Rref
    \/ Det

SpecShapes == InitShapes /\ [][NextShapes]_vars

(* dot on two matrices of any shapes *)
InitDot ==
    \E r \in 1..MaxDotDim, n \in 1..MaxDotDim, p \in 1..MaxDotDim, q \in 1..MaxDotDim :
        Start(Ramp(r, n, 1), Ramp(p, q, 7), <<>>, 1, 0)

NextDot ==
    \/ SetEntry
    \/ Dot

SpecDot == InitDot /\ [][NextDot]_vars

(* from_string on any short &str, then to_string on what it returned *)
Chars == {"1", "2", "-", " ", ";"}

Strs(n) == UNION {[1..k -> Chars] : k \in 0..n}

InitText == \E s \in Strs(MaxLen) \cup {Sample1} : Start(new(0, 0), new(0, 0), s, 2, 0)

NextText ==
    \/ FromString
    \/ BindSelf
    \/ Display

SpecText == InitText /\ [][NextText]_vars

----------------------------------------------------------------------------
(* reference notions the properties are stated with *)

\* every element is an integer (either zero included)
IntegerValued(M) == \A i \in 1..Len(M.data) : Abs(M.data[i][2]) = 1

\* the integer an integer-valued element holds
IntOf(x) == x[1]

Perms == [n \in 0..4 |-> {p \in [1..n -> 1..n] : \A i, j \in 1..n : i # j => p[i] # p[j]}]

PermSign(p, n) ==
    LET inv == Cardinality({ij \in (1..n) \X (1..n) : ij[1] < ij[2] /\ p[ij[1]] > p[ij[2]]})
    IN  IF inv % 2 = 0 THEN 1 ELSE -1

RECURSIVE PermProduct(_, _, _)
PermProduct(M, p, i) ==
    IF i > M.rows THEN 1 ELSE IntOf(At(M, i - 1, p[i] - 1)) * PermProduct(M, p, i + 1)

RECURSIVE SumOverPerms(_, _)
SumOverPerms(M, ps) ==
    IF ps = {} THEN 0
    ELSE LET p == CHOOSE q \in ps : TRUE
         IN  PermSign(p, M.rows) * PermProduct(M, p, 1) + SumOverPerms(M, ps \ {p})

\* the determinant of an integer-valued n x n matrix, n <= 4: the signed
\* sum over the permutations
Determinant(M) == SumOverPerms(M, Perms[M.rows])

\* the leading k x k block
LeadingBlock(M, k) == Matrix(k, k, [i \in 1..(k * k) |-> At(M, (i - 1) \div k, (i - 1) % k)])

RECURSIVE SumProducts(_, _, _, _, _)
\* the sum over k of A[i,k] * B[k,j], k from `from` to n - 1
SumProducts(A, B, i, j, from) ==
    IF from >= A.cols THEN PZero
    ELSE FAdd(FMul(At(A, i, from), At(B, from, j)), SumProducts(A, B, i, j, from + 1))

\* the matrix product of A and B, A.cols = B.rows
Product(A, B) ==
    Matrix(A.rows, B.cols,
           [i \in 1..(A.rows * B.cols) |->
               SumProducts(A, B, (i - 1) \div B.cols, (i - 1) % B.cols, 0)])

\* R is the matrix product of A and B, up to the sign of a zero
IsProduct(R, A, B) ==
    /\ R.rows = A.rows
    /\ R.cols = B.cols
    /\ Len(R.data) = A.rows * B.cols
    /\ \A i \in 1..Len(R.data) : FEq(R.data[i], Product(A, B).data[i])

\* the n x n identity, up to the sign of a zero
IsIdentity(M, n) ==
    /\ M.rows = n
    /\ M.cols = n
    /\ Len(M.data) = n * n
    /\ \A r \in 0..(n - 1), c \in 0..(n - 1) :
          FEq(At(M, r, c), IF r = c THEN Num(1) ELSE PZero)

\* the buffer is as long as the dimensions say
WellFormed(M) == Len(M.data) = M.rows * M.cols

Called(name) == \E i \in 1..Len(calls) : calls[i] = name

----------------------------------------------------------------------------
(* C1 *)

\* C1: dot(A, B) of an m x n and a p x q matrix succeeds whenever n = p,
\* also when m # q, and returns the m x q matrix of the sums over k of
\* A[i,k] * B[k,j]; it fails only when n # p.
C1_DotContract ==
    LastCall = "dot" =>
        /\ old.cols = b.rows => status = "ok" /\ IsProduct(ret, old, b)
        /\ status = "panic" => old.cols # b.rows

----------------------------------------------------------------------------
(* C2 *)

\* C2: inverse of a non-singular n x n matrix M, n >= 2 (2 x 2 included),
\* returns an n x n matrix R with dot(M, R) the identity.
C2_InverseContract ==
    (/\ LastCall = "inverse"
     /\ old.rows = old.cols
     /\ old.rows >= 2
     /\ Determinant(old) # 0) =>
        /\ status = "ok"
        /\ ret.rows = old.rows
        /\ ret.cols = old.cols
        /\ IsIdentity(Product(old, ret), old.rows)

----------------------------------------------------------------------------
(* C3 *)

\* C3: after any sequence of calls that complete without a panic, every
\* Matrix created or mutated has len(data) = rows * cols.
C3_LenInvariant ==
    status # "panic" => WellFormed(m) /\ WellFormed(b) /\ WellFormed(ret)

\* three calls completed, the last a combine of two 3 x 2 matrices that a
\* transpose made
C3_Witness ==
    /\ status = "ok"
    /\ Len(calls) = 3
    /\ LastCall = "combine"
    /\ Called("transpose")
    /\ ret.rows = 3
    /\ ret.cols = 2
    /\ Len(ret.data) = 6

----------------------------------------------------------------------------
(* C4 *)

\* C4: identity() on a square matrix of any contents leaves 1.0 on the
\* diagonal and 0.0 everywhere else.
C4_IdentityOverwrites ==
    (LastCall = "identity" /\ old.rows = old.cols) =>
        /\ status = "ok"
        /\ \A r \in 0..(m.rows - 1), c \in 0..(m.cols - 1) :
              At(m, r, c) = IF r = c THEN Num(1) ELSE PZero

----------------------------------------------------------------------------
(* C5 *)

\* C5: det of a 2 x 2, 3 x 3 or 4 x 4 matrix of integers returns the
\* determinant, the signed sum over the permutations.
C5_DetIsDeterminant ==
    (/\ LastCall = "det"
     /\ old.rows = old.cols
     /\ old.rows \in 2..4
     /\ IntegerValued(old)) =>
        /\ status = "ok"
        /\ FEq(num, Num(Determinant(old)))

\* det has returned the non-zero determinant of a 4 x 4 matrix that was
\* written to twice
C5_Witness ==
    /\ LastCall = "det"
    /\ status = "ok"
    /\ old.rows = 4
    /\ old.cols = 4
    /\ edits = 2
    /\ old # Dense44
    /\ FEq(num, Num(Determinant(old)))
    /\ Determinant(old) # 0

----------------------------------------------------------------------------
(* C6 *)

\* the leading principal minors of the rows x rows block are all non-zero
LeadingMinorsNonZero(M) ==
    /\ M.rows <= M.cols
    /\ IntegerValued(M)
    /\ \A k \in 1..M.rows : Determinant(LeadingBlock(M, k)) # 0

\* column lead holds 1 in row lead and 0 in every other row
LeadingIdentity(M) ==
    \A r \in 0..(M.rows - 1), lead \in 0..(M.rows - 1) :
        FEq(At(M, r, lead), IF r = lead THEN Num(1) ELSE PZero)

\* C6: rref of a rows x cols matrix, rows <= cols, whose leading principal
\* minors are all non-zero leaves the identity in the leading block, and a
\* second rref leaves that result unchanged.
C6_RrefTwice ==
    (/\ LeadingMinorsNonZero(orig)
     /\ calls \in {<<"rref">>, <<"rref", "rref">>}) =>
        /\ status = "ok"
        /\ LeadingIdentity(m)
        /\ Len(calls) = 2 => m = old

\* rref ran twice on a 3 x 4 matrix with non-zero leading minors, and the
\* first run changed it
C6_Witness ==
    /\ calls = <<"rref", "rref">>
    /\ status = "ok"
    /\ LeadingMinorsNonZero(orig)
    /\ orig.rows = 3
    /\ orig.cols = 4
    /\ edits > 0
    /\ m # orig
    /\ m = old
    /\ \E i \in 1..Len(m.data) : m.data[i][2] > 1

----------------------------------------------------------------------------
(* C7 *)

\* C7: on a matrix with rows >= 1 and cols >= 1, rref and det run to
\* completion or fail with a declared error (det on a non-square matrix);
\* neither fails through an access outside the buffer.
C7_NoOutOfBounds ==
    (/\ LastCall \in {"rref", "det"}
     /\ old.rows >= 1
     /\ old.cols >= 1) =>
        /\ \/ status = "ok"
           \/ LastCall = "det" /\ old.rows # old.cols /\ err = NotSquareDet
        /\ err # OutOfBounds

----------------------------------------------------------------------------
(* C8 *)

\* the rows of the input, each a sequence of tokens
TokenRows(s) ==
    LET rs == SplitOn(s, ";", 1, <<>>)
    IN  [i \in 1..Len(rs) |-> SplitWs(rs[i], 1, <<>>)]

AllNumeric(trs) == \A i \in 1..Len(trs) : \A k \in 1..Len(trs[i]) : ParseF64(trs[i][k]).ok

Rectangular(trs) == \A i \in 1..Len(trs) : Len(trs[i]) = Len(trs[1])

RaggedInput == "RaggedInput"

\* C8: from_string on r >= 1 rows of numeric tokens returns the r x c
\* Matrix of the tokens in row-major order when every row has c tokens, and
\* reports a RaggedInput error to the caller when two rows differ in length.
C8_FromStringContract ==
    LET trs == TokenRows(input)
        r == Len(trs)
        c == Len(trs[1])
    IN  (calls = <<"from_string">> /\ AllNumeric(trs)) =>
            IF Rectangular(trs)
            THEN /\ status = "ok"
                 /\ ret.rows = r
                 /\ ret.cols = c
                 /\ Len(ret.data) = r * c
                 /\ \A i \in 1..r : \A k \in 1..c :
                       ret.data[(i - 1) * c + k] = ParseF64(trs[i][k]).v
            ELSE /\ status = "error"
                 /\ err = RaggedInput

----------------------------------------------------------------------------
(* C9 *)

\* an integer-valued element with exactly one fractional digit
OneDigit(x) == (IF SignNeg(x) THEN "-" ELSE "") \o ToString(Abs(IntOf(x))) \o ".0"

RECURSIVE CommaRow(_, _, _)
CommaRow(M, r, c) ==
    IF c >= M.cols THEN ""
    ELSE OneDigit(At(M, r, c)) \o (IF c = M.cols - 1 THEN "" ELSE ", ") \o CommaRow(M, r, c + 1)

RECURSIVE CommaRows(_, _)
CommaRows(M, r) ==
    IF r >= M.rows THEN ""
    ELSE "[" \o CommaRow(M, r, 0) \o "]\n" \o CommaRows(M, r + 1)

\* C9: to_string of an r x c matrix of integer-valued entries yields one
\* line per row, "[" then the values with one fractional digit separated by
\* ", " then "]" and a newline.
C9_DisplayContract ==
    (LastCall = "to_string" /\ IntegerValued(old)) => text = CommaRows(old, 0)

----------------------------------------------------------------------------
(* C10 *)

RECURSIVE FirstPositiveRow(_, _)
FirstPositiveRow(M, r) ==
    IF FPos(At(M, r, 0)) THEN r ELSE FirstPositiveRow(M, r + 1)

\* M with rows x and y exchanged in full
Exchanged(M, x, y) ==
    [M EXCEPT !.data = [i \in 1..Len(M.data) |->
        LET r == (i - 1) \div M.cols
            c == (i - 1) % M.cols
        IN  IF r = x THEN At(M, y, c) ELSE IF r = y THEN At(M, x, c) ELSE M.data[i]]]

\* C10: rref on a matrix with data[0,0] = 0.0 and a strictly positive entry
\* in the first column exchanges row 0 with the first such row in full, and
\* then eliminates on the exchanged matrix.
C10_SwapThenEliminate ==
    (/\ calls = <<"rref">>
     /\ WellFormed(orig)
     /\ orig.rows >= 1
     /\ orig.cols >= 1
     /\ FEq(At(orig, 0, 0), PZero)
     /\ \E r \in 0..(orig.rows - 1) : FPos(At(orig, r, 0))) =>
        LET swapped == Exchanged(orig, 0, FirstPositiveRow(orig, 0))
            red == RrefLoop(swapped, 0, 0)
        IN  /\ status = "ok"
            /\ red.ok => m = correct(red.v)

=============================================================================
